---- MODULE Spec2Model ----
(***************************************************************************)
(* State-machine model of the two scroll-wheel selector engines of         *)
(* vue-ios-style-datepicker:                                               *)
(*   - the 3D cylinder variant, src/src/core/IosSelector.ts  (Cyl_ names)  *)
(*   - the simple translate variant, src/unnamed/part_002    (Sim_ names)  *)
(*                                                                         *)
(* Numbers.  JavaScript numbers are modelled in fixed point:               *)
(*   scroll (cylinder)      : SU units per item                            *)
(*   velocity (cylinder)    : VU units per item/second                     *)
(*   currentY, velocity (simple) : PX units per pixel                      *)
(* NaN is a distinguished value that every arithmetic operator propagates  *)
(* and every comparison answers FALSE on, as IEEE-754 does.                *)
(*                                                                         *)
(* Host.  requestAnimationFrame callbacks, setTimeout callbacks and        *)
(* promise reactions (microtasks) are explicit queues.  A scheduled        *)
(* callback records whether the instance's handle variable currently holds *)
(* its handle ("cur").  Animation-frame handles and timer handles come     *)
(* from two independent counters of the host, so a fresh handle of one     *)
(* kind may or may not be numerically equal to a live handle of the other  *)
(* kind: the cylinder keeps both kinds in the one variable moveT, and the  *)
(* choice "co" of a scheduling step says which live callback of the other  *)
(* kind, if any, the fresh handle coincides with.                          *)
(***************************************************************************)
EXTENDS Integers, Sequences, FiniteSets, TLC

VARIABLES
    variant,       \* "cylinder" | "simple": which engine this instance is
    type,          \* config.type: "normal" | "infinite"
    source,        \* the instance's Source (sequence of options)
    count,         \* config.count
    \* ---- cylinder variant (IosSelector.ts:27-42)
    scroll, selected, moving, moveT, touchData,
    \* ---- simple variant (part_002:16-22)
    currentIndex, startY, currentY, lastY, velocity, animationId, wheelTimeout,
    transition,    \* list.style.transition: "none" | "animated"
    \* ---- host
    rafQ,          \* scheduled animation-frame callbacks
    timers,        \* pending setTimeout handles
    micro,         \* promise reactions not run yet
    sync,          \* TRUE while the caller's synchronous block is still running
    elListeners,   \* listeners on el / wrapper attached
    docListeners,  \* cylinder: move/end listeners on document attached
    rendered,      \* the option list currently rendered inside el (<<>> = none)
    destroyed,     \* destroy() has returned
    pressed,       \* a single contact point is down (environment)
    moves,         \* move events of the current press (environment, bounded)
    events,        \* gestures and API calls so far (environment, bounded)
    \* ---- useDatepicker (composables/useDatepicker.ts)
    picker,        \* [sel, min, max, out]: the selected column values, the
                   \* minDate / maxDate props and the Dates passed to the
                   \* composable's onChange by the last step
    \* ---- observation
    calls,         \* options passed to onChange by the last step
    fault,         \* how the last step ended: "none" (it returned), "throw"
                   \* (an exception left it), "hang" (it never returns)
    op             \* the last step: [name, arg, chain]; chain is TRUE from a
                   \* select(v) of the cylinder on, while only that call's own
                   \* animation frames have run since (then arg is still v,
                   \* and it is v in the reaction that completes the call)

vars == << variant, type, source, count, scroll, selected, moving, moveT, touchData,
           currentIndex, startY, currentY, lastY, velocity, animationId,
           wheelTimeout, transition, rafQ, timers, micro, sync, elListeners,
           docListeners, rendered, destroyed, pressed, moves, events,
           calls, fault, op, picker >>

----------------------------------------------------------------------------
(* Bounds of the model (not program constants)                             *)

MaxLive == 2        \* scheduled callbacks (frames and timers) alive at once
MaxMoves == 1       \* move events per press
MaxEvents == 2      \* press, wheel, select and updateSource events per run
FrameSteps == 1     \* distinct intermediate time points of a timed animation
MaxMicro == 2       \* promise reactions queued at once
MaxLen == 4         \* length of the sources of the index computations
MaxCount == 7       \* config.count of the index computations
MaxCycles == 2      \* whole turns added to a position of the index computations
MaxMinutes == 61    \* options at which the loop of getMinutes counts as endless

(* Program constants                                                       *)

Count == 5          \* config.count (useDatepicker.ts:320: itemCount || 5)
Sensitivity10 == 8  \* config.sensitivity * 10 (0.8)
OffsetHeight == 48  \* el.offsetHeight of the host element (cylinder)
SimItemHeight == 36 \* part_002:14
MaxV == 30          \* IosSelector.ts:332 velocity ceiling

(* Fixed-point scales                                                      *)
SU == 2 * 10
VU == 2 * 5
PX == 10 * 10

NaN == 0 - 1000000000
PosInf == 1000000000
NegInf == 0 - 1000000001
\* the value of a computation that does not terminate
Hang == 0 - 1000000002

Undefined == [value |-> 0 - 1, label |-> "undefined"]

Opt(v, l) == [value |-> v, label |-> l]

S123 == << Opt(1, "a"), Opt(2, "b"), Opt(3, "c") >>
S529 == << Opt(5, "x"), Opt(2, "y"), Opt(9, "z") >>
S595 == << Opt(5, "u"), Opt(9, "v"), Opt(5, "w") >>

InitSources == { S123 }
NewSources == { S529, S595 }
Values == { 2, 5 }                 \* arguments of select()
InitValues == { 0 - 1, 2 }         \* -1 stands for config.value === undefined

PressYs == { 18 }                  \* clientY of press events (px)
CylMoveYs == { 0, 18, 36 }         \* clientY of move events, cylinder
SimMoveYs == { 16, 18, 20 }        \* clientY of move events, simple
Dts == { 0, 250 }                  \* ms between two consecutive samples
WheelDeltas == { 0 - 72, 36 }      \* WheelEvent.deltaY
BurstDeltas == { 0 - 54, 18 }      \* WheelEvent.deltaY of the wheel bursts

----------------------------------------------------------------------------
(* Arithmetic                                                              *)

Abs(x) == IF x < 0 THEN 0 - x ELSE x
Min2(a, b) == IF a < b THEN a ELSE b
Max2(a, b) == IF a > b THEN a ELSE b

\* n / d rounded to the nearest integer (d > 0): fixed-point rounding
RoundDiv(n, d) == (2 * n + d) \div (2 * d)

Add(x, y) == IF x = NaN \/ y = NaN THEN NaN ELSE x + y
Sub(x, y) == IF x = NaN \/ y = NaN THEN NaN ELSE x - y

\* Math.round on a scroll value: floor(x + 0.5)
MathRound(s) == IF s = NaN THEN NaN ELSE ((s + SU \div 2) \div SU) * SU

\* Math.max(lo, Math.min(x, hi))
Clamp(lo, x, hi) == IF x = NaN THEN NaN ELSE Max2(lo, Min2(x, hi))

\* a plausible slip: Array.prototype.findLastIndex in place of findIndex
findLastIndex(src, v) ==
    IF \E i \in 1..Len(src) : src[i].value = v
    THEN (CHOOSE i \in 1..Len(src) :
              /\ src[i].value = v
              /\ \A j \in (i + 1)..Len(src) : src[j].value # v) - 1
    ELSE 0 - 1

\* source.findIndex(s => s.value === v): 0-based index of the first match
findIndex(src, v) ==
    IF \E i \in 1..Len(src) : src[i].value = v
    THEN (CHOOSE i \in 1..Len(src) :
              /\ src[i].value = v
              /\ \A j \in 1..(i - 1) : src[j].value # v) - 1
    ELSE 0 - 1

\* source[s] for a scroll value s (undefined unless s is an in-range integer)
SourceAt(src, s) ==
    IF s # NaN /\ s % SU = 0 /\ (s \div SU) >= 0 /\ (s \div SU) < Len(src)
    THEN src[(s \div SU) + 1]
    ELSE Undefined

----------------------------------------------------------------------------
(* Cylinder variant: src/src/core/IosSelector.ts                           *)

itemCount(st) == st.count - (st.count % 4)
Cyl_halfCount(st) == itemCount(st) \div 2
quarterCount(st) == itemCount(st) \div 4
Cyl_itemHeight(st) == (OffsetHeight * 3) \div itemCount(st)

RECURSIVE ConcatUntil(_, _, _)
ConcatUntil(acc, sourceData, halfCount) ==
    IF Len(acc) < halfCount
    THEN ConcatUntil(acc \o sourceData, sourceData, halfCount)
    ELSE acc

\* create(): rebuilds the DOM and (re)assigns source
Cyl_create(st, sourceData) ==
    IF Len(sourceData) = 0 THEN st
    ELSE LET src == IF st.type = "infinite"
                    THEN ConcatUntil(sourceData, sourceData, Cyl_halfCount(st))
                    ELSE sourceData
         IN [st EXCEPT !.source = src, !.rendered = src]

\* a plausible slip: the while loop left out, so that the sign of s survives
\* JavaScript's remainder
normalizeScroll_remainder(src, s) ==
    IF s = NaN THEN NaN
    ELSE IF Len(src) = 0 THEN NaN
    ELSE IF s < 0 THEN 0 - ((0 - s) % (Len(src) * SU))
    ELSE s % (Len(src) * SU)

\* while (normalized < 0) normalized += source.length;
\* return normalized % source.length
normalizeScroll(src, s) ==
    IF s = NaN THEN NaN
    ELSE IF Len(src) = 0 THEN (IF s < 0 THEN Hang ELSE NaN)
    ELSE s % (Len(src) * SU)

\* moveTo(): returns the position it rendered
moveTo(st, s) ==
    IF st.type = "infinite" THEN normalizeScroll(st.source, s) ELSE s

\* Handles.  Only one thing is ever done with a handle: it is passed to
\* cancelAnimationFrame / clearTimeout later.  So a scheduled callback carries
\* the flag cur: "the handle variable of the instance (moveT; animationId or
\* wheelTimeout) holds the number of my handle".  In the cylinder variant
\* moveT holds handles of both kinds, and the number a new handle gets may be
\* equal to the number of one live handle of the other kind (co).
Frame(init, final, p, then) ==
    [cur |-> TRUE, init |-> init, final |-> final, p |-> p, then |-> then]

Reaction(then, arg) == [then |-> then, arg |-> arg]

Uncur(q) == [i \in 1..Len(q) |-> [q[i] EXCEPT !.cur = FALSE]]
Live(st) == Len(st.rafQ) + st.timers.cur + st.timers.old
NoTimerCur(t) == [cur |-> 0, old |-> t.cur + t.old]

RECURSIVE SelectNotCur(_)
SelectNotCur(q) ==
    IF q = << >> THEN << >>
    ELSE IF Head(q).cur THEN SelectNotCur(Tail(q))
    ELSE << Head(q) >> \o SelectNotCur(Tail(q))

cancelAnimationFrame(st) == [st EXCEPT !.rafQ = SelectNotCur(@)]
clearTimeout(st) == [st EXCEPT !.timers.cur = 0]

\* moveT = requestAnimationFrame(tick): co = 1 when the new handle has the
\* number of a pending timer's handle
Cyl_requestAnimationFrame(st, f, co) ==
    [st EXCEPT !.moveT = "raf",
               !.rafQ = Append(Uncur(@), f),
               !.timers = IF co = 1 THEN [cur |-> 1, old |-> @.cur + @.old - 1]
                          ELSE NoTimerCur(@),
               !.ok = @ /\ co \in { 0, 1 } /\ (co = 1 => st.timers.cur + st.timers.old > 0)
                        /\ Live(st) < MaxLive]

\* moveT = setTimeout(..): co = j > 0 when the new handle has the number of
\* the handle of the j-th scheduled frame
Cyl_setTimeout(st, co) ==
    [st EXCEPT !.moveT = "timer",
               !.rafQ = [i \in 1..Len(@) |-> [@[i] EXCEPT !.cur = (i = co)]],
               !.timers = [cur |-> 1, old |-> @.cur + @.old],
               !.ok = @ /\ co \in 0..Len(st.rafQ) /\ Live(st) < MaxLive]

Enqueue(st, then, arg) ==
    [st EXCEPT !.micro = Append(@, Reaction(then, IF then = "release" THEN 0 ELSE arg)),
               !.ok = @ /\ Len(st.micro) < MaxMicro]

Cyl_stop(st) ==
    cancelAnimationFrame([st EXCEPT !.moving = FALSE])

\* easeOutQuart(k / (FrameSteps + 1)) as the fraction EaseNum(k) / EaseDen
EaseDen == (FrameSteps + 1) * (FrameSteps + 1) * (FrameSteps + 1) * (FrameSteps + 1)
EaseNum(k) ==
    LET r == FrameSteps + 1 - k IN EaseDen - r * r * r * r

easeOutQuart(k, total) ==
    IF total = NaN THEN NaN ELSE RoundDiv(EaseNum(k) * total, EaseDen)

\* animateToScroll(initScroll, finalScroll, t).then(reaction)
\*   tk = "zero" | "pos" | "nan" abstracts t; the reaction is
\*   selectByScroll(finalScroll) (then = "select", "wheel") or
\*   selectByScroll(scroll) (then = "release")
animateToScroll(st, initScroll, finalScroll, tk, then, co) ==
    IF (initScroll # NaN /\ initScroll = finalScroll) \/ tk = "zero"
    THEN \* moveTo(initScroll); return Promise.resolve()
         IF moveTo(st, initScroll) = Hang THEN [st EXCEPT !.scroll = Hang]
         ELSE Enqueue(st, then, finalScroll)
    ELSE LET totalScrollLen == Sub(finalScroll, initScroll)
             m == [st EXCEPT !.moving = TRUE]
         IN IF tk = "nan"
            THEN \* pass < NaN is false: the first tick completes
                 LET s == Cyl_stop(m)
                 IN Enqueue([s EXCEPT !.scroll = moveTo(s, Add(initScroll, totalScrollLen))],
                            then, finalScroll)
            ELSE \* pass = 0 < t
                 Cyl_requestAnimationFrame(
                     [m EXCEPT !.scroll = moveTo(m, Add(initScroll, easeOutQuart(0, totalScrollLen)))],
                     Frame(initScroll, finalScroll, 0, then), co)

RemoveAt(q, i) == [j \in 1..(Len(q) - 1) |-> IF j < i THEN q[j] ELSE q[j + 1]]

\* tick() run as the i-th scheduled animation-frame callback; k = 0 means
\* pass >= t, k > 0 that the clock stands at the k-th intermediate point
tick(st, i, k, co) ==
    LET f == st.rafQ[i]
        totalScrollLen == Sub(f.final, f.init)
        s0 == [st EXCEPT !.rafQ = RemoveAt(@, i)]
    IN IF k > 0
       THEN Cyl_requestAnimationFrame(
                [s0 EXCEPT !.scroll = moveTo(s0, Add(f.init, easeOutQuart(k, totalScrollLen)))],
                Frame(f.init, f.final, k, f.then), co)
       ELSE LET s == Cyl_stop(s0)
            IN Enqueue([s EXCEPT !.scroll = moveTo(s, Add(f.init, totalScrollLen))],
                       f.then, f.final)

selectByScroll(st, s0) ==
    LET s1 == IF st.type = "infinite" THEN normalizeScroll(st.source, s0) ELSE MathRound(s0)
        top == (Len(st.source) - 1) * SU
        s == IF s1 # NaN /\ s1 > top THEN top ELSE s1
        sel == SourceAt(st.source, s)
    IN [st EXCEPT !.scroll = s,
                  !.selected = sel,
                  !.calls = IF sel # Undefined THEN Append(@, sel) ELSE @]

\* initV * t + decel * t * t / 2 with t = |initV / decel|, in scroll units
Displacement(initV) ==
    IF initV = NaN THEN NaN
    ELSE LET a10 == Sensitivity10
             d == RoundDiv(initV * initV * SU * 10, 2 * a10 * VU * VU)
         IN IF initV > 0 THEN d ELSE 0 - d

\* a plausible slip: the bounce taken only beyond the last option, so that
\* a release above the first option decelerates by its velocity
animateMoveByInitV_topOnly(st, initV, co) ==
    LET top == (Len(st.source) - 1) * SU
    IN IF st.type = "normal"
       THEN IF st.scroll # NaN /\ st.scroll > top
            THEN animateToScroll(st, st.scroll, top, "pos", "release", co)
            ELSE LET finalScroll == Clamp(0, MathRound(Add(st.scroll, Displacement(initV))), top)
                     tk == IF finalScroll = NaN THEN "nan"
                           ELSE IF finalScroll = st.scroll THEN "zero" ELSE "pos"
                 IN animateToScroll(st, st.scroll, finalScroll, tk, "release", co)
       ELSE LET finalScroll == MathRound(Add(st.scroll, Displacement(initV)))
                tk == IF initV = NaN THEN "nan" ELSE IF initV = 0 THEN "zero" ELSE "pos"
            IN animateToScroll(st, st.scroll, finalScroll, tk, "release", co)

animateMoveByInitV(st, initV, co) ==
    LET top == (Len(st.source) - 1) * SU
    IN IF st.type = "normal"
       THEN IF st.scroll # NaN /\ (st.scroll < 0 \/ st.scroll > top)
            THEN animateToScroll(st, st.scroll, IF st.scroll < 0 THEN 0 ELSE top,
                                 "pos", "release", co)
            ELSE LET finalScroll == Clamp(0, MathRound(Add(st.scroll, Displacement(initV))), top)
                     tk == IF finalScroll = NaN THEN "nan"
                           ELSE IF finalScroll = st.scroll THEN "zero" ELSE "pos"
                 IN animateToScroll(st, st.scroll, finalScroll, tk, "release", co)
       ELSE LET finalScroll == MathRound(Add(st.scroll, Displacement(initV)))
                tk == IF initV = NaN THEN "nan" ELSE IF initV = 0 THEN "zero" ELSE "pos"
            IN animateToScroll(st, st.scroll, finalScroll, tk, "release", co)

\* v of handleTouchEnd before the clamp; a sample is [y, dt] with dt the
\* time since the previous sample (only differences of timestamps are used)
RawVelocity(st, yArr) ==
    IF Len(yArr) = 1 THEN 0
    ELSE LET len == Len(yArr)
             dy == yArr[len - 1].y - yArr[len].y
             dt == yArr[len].dt
         IN IF dt = 0
            THEN IF dy = 0 THEN NaN ELSE IF dy > 0 THEN PosInf ELSE NegInf
            ELSE RoundDiv(dy * 1000 * VU, Cyl_itemHeight(st) * dt)

ClampVelocity(v) ==
    IF v = NaN THEN NaN
    ELSE IF Abs(v) > MaxV * VU THEN (IF v > 0 THEN MaxV * VU ELSE 0 - MaxV * VU)
    ELSE v

Cyl_handleTouchStart(st, eventY) ==
    LET s == [st EXCEPT !.touchData = [startY |-> eventY,
                                       yArr |-> << [y |-> eventY, dt |-> 0] >>,
                                       touchScroll |-> st.scroll]]
    IN [Cyl_stop(s) EXCEPT !.docListeners = TRUE]

\* a plausible slip: pop() for shift(), the newest sample evicted
Cyl_handleTouchMove_pop(st, eventY, dt) ==
    LET pushed == Append(st.touchData.yArr, [y |-> eventY, dt |-> dt])
        yArr == IF Len(pushed) > 5 THEN SubSeq(pushed, 1, 5) ELSE pushed
        scrollAdd == RoundDiv((st.touchData.startY - eventY) * SU, Cyl_itemHeight(st))
        raw == Add(scrollAdd, st.touchData.touchScroll)
        top == (Len(st.source) - 1) * SU
        moveToScroll ==
            IF st.type = "normal" /\ raw # NaN
            THEN IF raw < 0 THEN RoundDiv(raw * 3, 10)
                 ELSE IF raw > top THEN top + RoundDiv((raw - top) * 3, 10)
                 ELSE raw
            ELSE raw
    IN [st EXCEPT !.touchData.yArr = yArr, !.scroll = moveTo(st, moveToScroll)]

Cyl_handleTouchMove(st, eventY, dt) ==
    LET pushed == Append(st.touchData.yArr, [y |-> eventY, dt |-> dt])
        yArr == IF Len(pushed) > 5 THEN Tail(pushed) ELSE pushed
        scrollAdd == RoundDiv((st.touchData.startY - eventY) * SU, Cyl_itemHeight(st))
        raw == Add(scrollAdd, st.touchData.touchScroll)
        top == (Len(st.source) - 1) * SU
        moveToScroll ==
            IF st.type = "normal" /\ raw # NaN
            THEN IF raw < 0 THEN RoundDiv(raw * 3, 10)
                 ELSE IF raw > top THEN top + RoundDiv((raw - top) * 3, 10)
                 ELSE raw
            ELSE raw
    IN [st EXCEPT !.touchData.yArr = yArr, !.scroll = moveTo(st, moveToScroll)]

\* the v handleTouchEnd hands to animateMoveByInitV
ReleaseVelocity(st) == ClampVelocity(RawVelocity(st, st.touchData.yArr))

Cyl_handleTouchEnd(st, co) ==
    animateMoveByInitV([st EXCEPT !.docListeners = FALSE], ReleaseVelocity(st), co)

Cyl_handleWheel(st, deltaY, co) ==
    LET s1 == Cyl_stop(st)
        delta == RoundDiv(deltaY * SU, Cyl_itemHeight(st))
        sum == Add(s1.scroll, delta)
        newScroll == IF st.type = "normal"
                     THEN Clamp(0, sum, (Len(st.source) - 1) * SU)
                     ELSE sum
    IN Cyl_setTimeout(clearTimeout([s1 EXCEPT !.scroll = moveTo(s1, newScroll)]), co)

\* the callback handleWheel hands to setTimeout
\*   h = "cur" | "old": which pending timeout fires
Cyl_wheelTimer(st, h, co) ==
    LET s == [st EXCEPT !.timers[h] = @ - 1]
        finalScroll == MathRound(s.scroll)
    IN animateToScroll(s, s.scroll, finalScroll, "pos", "wheel", co)

\* the promise reactions: .then(() => selectByScroll(..)) and the code after await
Cyl_reaction(st, r) ==
    IF r.then = "release" THEN selectByScroll(st, st.scroll)
    ELSE selectByScroll(st, r.arg)

\* a plausible slip: the "index !== -1" guard of select() left out
Cyl_select_unguarded(st, value, co) ==
    LET index == findIndex(st.source, value)
        s == Cyl_stop(st)
        initScroll == normalizeScroll(s.source, s.scroll)
        finalScroll == index * SU
        tk == IF initScroll = NaN THEN "nan"
              ELSE IF finalScroll = initScroll THEN "zero" ELSE "pos"
    IN animateToScroll(s, initScroll, finalScroll, tk, "select", co)

Cyl_select(st, value, co) ==
    LET index == findIndex(st.source, value)
    IN IF index # 0 - 1
       THEN LET s == Cyl_stop(st)
                initScroll == normalizeScroll(s.source, s.scroll)
                finalScroll == index * SU
                tk == IF initScroll = NaN THEN "nan"
                      ELSE IF finalScroll = initScroll THEN "zero" ELSE "pos"
            IN animateToScroll(s, initScroll, finalScroll, tk, "select", co)
       ELSE st

Cyl_getValue(st) == IF st.selected # Undefined THEN st.selected.value ELSE 0

Cyl_updateSource(st, newSource) ==
    LET s == Cyl_create(st, newSource)
    IN IF ~s.moving THEN selectByScroll(s, s.scroll) ELSE s

Cyl_destroy(st) ==
    [Cyl_stop(st) EXCEPT !.elListeners = FALSE, !.docListeners = FALSE,
                         !.rendered = << >>, !.destroyed = TRUE]

\* state after createIosSelector(config) returned
Cyl_createIosSelector(ty, src, value, cnt) ==
    LET s0 == [variant |-> "cylinder", type |-> ty, source |-> src, count |-> cnt,
               scroll |-> 0, selected |-> SourceAt(src, 0), moving |-> FALSE,
               moveT |-> "none",
               touchData |-> [startY |-> 0, yArr |-> << >>, touchScroll |-> 0],
               currentIndex |-> 0, startY |-> 0, currentY |-> 0, lastY |-> 0,
               velocity |-> 0, animationId |-> 0, wheelTimeout |-> 0,
               transition |-> "none",
               rafQ |-> << >>, timers |-> [cur |-> 0, old |-> 0],
               micro |-> << >>, sync |-> FALSE,
               elListeners |-> TRUE, docListeners |-> FALSE, rendered |-> << >>,
               destroyed |-> FALSE, pressed |-> FALSE, moves |-> 0, events |-> 0,
               calls |-> << >>, fault |-> "none",
               op |-> [name |-> "create", arg |-> value, chain |-> FALSE],
               ok |-> TRUE]
        s1 == Cyl_create(s0, src)
        index == findIndex(s1.source, value)
    IN IF value # 0 - 1 /\ index # 0 - 1
       THEN [s1 EXCEPT !.scroll = index * SU, !.selected = SourceAt(s1.source, index * SU)]
       ELSE s1

----------------------------------------------------------------------------
(* Simple translate variant: src/unnamed/part_002                          *)

Sim_halfCount(st) == st.count \div 2
IH == SimItemHeight * PX

setPosition(st, y, animate) ==
    [st EXCEPT !.transition = IF animate THEN "animated" ELSE "none",
               !.currentY = y]

\* a plausible slip: the halfCount offset of the infinite list left out
getSourceIndexFromPosition_noOffset(st, y) ==
    IF st.type = "infinite"
    THEN LET domIndex == RoundDiv(0 - y, IH)
         IN domIndex % Len(st.source)
    ELSE LET index == RoundDiv(0 - y, IH)
         IN Max2(0, Min2(index, Len(st.source) - 1))

getSourceIndexFromPosition(st, y) ==
    IF st.type = "infinite"
    THEN LET domIndex == RoundDiv(Sim_halfCount(st) * IH - y, IH)
         IN domIndex % Len(st.source)
    ELSE LET index == RoundDiv(0 - y, IH)
         IN Max2(0, Min2(index, Len(st.source) - 1))

getPositionFromSourceIndex(st, index) ==
    IF st.type = "infinite"
    THEN LET middleSetStart == 2 * Len(st.source)
             domIndex == middleSetStart + index
         IN (Sim_halfCount(st) - domIndex) * IH
    ELSE (0 - index) * IH

\* a plausible slip: the wrap measured in visible rows instead of the
\* Source's length
wrapToMiddleSet_byCount(st) ==
    IF st.type # "infinite" THEN st
    ELSE LET setHeight == Len(st.source) * IH
             middleSetStart == (Sim_halfCount(st) - 2 * Len(st.source)) * IH
             middleSetEnd == middleSetStart - setHeight
         IN IF st.currentY > middleSetStart + setHeight
            THEN [st EXCEPT !.currentY = @ - st.count * IH, !.transition = "none"]
            ELSE IF st.currentY < middleSetEnd - setHeight
            THEN [st EXCEPT !.currentY = @ + st.count * IH, !.transition = "none"]
            ELSE st

wrapToMiddleSet(st) ==
    IF st.type # "infinite" THEN st
    ELSE LET setHeight == Len(st.source) * IH
             middleSetStart == (Sim_halfCount(st) - 2 * Len(st.source)) * IH
             middleSetEnd == middleSetStart - setHeight
         IN IF st.currentY > middleSetStart + setHeight
            THEN [st EXCEPT !.currentY = @ - setHeight * RoundDiv(@ - middleSetStart, setHeight),
                            !.transition = "none"]
            ELSE IF st.currentY < middleSetEnd - setHeight
            THEN [st EXCEPT !.currentY = @ + setHeight * RoundDiv(middleSetEnd - @, setHeight),
                            !.transition = "none"]
            ELSE st

Sim_sourceAt(src, i) == IF i >= 0 /\ i < Len(src) THEN src[i + 1] ELSE Undefined

snapToNearest(st) ==
    LET sourceIndex == getSourceIndexFromPosition(st, st.currentY)
        s == setPosition([st EXCEPT !.currentIndex = sourceIndex],
                         getPositionFromSourceIndex(st, sourceIndex), TRUE)
        o == Sim_sourceAt(st.source, sourceIndex)
    IN [s EXCEPT !.calls = IF o # Undefined THEN Append(@, o) ELSE @]

\* animationId = requestAnimationFrame(decelerate)
Sim_requestAnimationFrame(st) ==
    [st EXCEPT !.animationId = 1,
               !.rafQ = Append(Uncur(@), Frame(0, 0, 0, "decelerate")),
               !.ok = @ /\ Live(st) < MaxLive]

\* a plausible slip: the friction factor applied to the position only, the
\* velocity kept
decelerate_noFriction(st, i) ==
    LET s0 == [st EXCEPT !.rafQ = RemoveAt(@, i)]
    IN IF Abs(s0.velocity) < PX \div 2
       THEN snapToNearest(s0)
       ELSE LET v == RoundDiv(s0.velocity * 95, 100)
                y == s0.currentY + v
                minY == (0 - (Len(s0.source) - 1)) * IH
                maxY == 0
                s1 == IF s0.type = "normal"
                      THEN IF y > maxY THEN [s0 EXCEPT !.currentY = maxY, !.velocity = 0]
                           ELSE IF y < minY THEN [s0 EXCEPT !.currentY = minY, !.velocity = 0]
                           ELSE [s0 EXCEPT !.currentY = y]
                      ELSE wrapToMiddleSet([s0 EXCEPT !.currentY = y])
            IN Sim_requestAnimationFrame(setPosition(s1, s1.currentY, FALSE))

\* decelerate() run as the i-th scheduled animation-frame callback
decelerate(st, i) ==
    LET s0 == [st EXCEPT !.rafQ = RemoveAt(@, i)]
    IN IF Abs(s0.velocity) < PX \div 2
       THEN snapToNearest(s0)
       ELSE LET v == RoundDiv(s0.velocity * 95, 100)
                y == s0.currentY + v
                minY == (0 - (Len(s0.source) - 1)) * IH
                maxY == 0
                s1 == IF s0.type = "normal"
                      THEN IF y > maxY THEN [s0 EXCEPT !.currentY = maxY, !.velocity = 0]
                           ELSE IF y < minY THEN [s0 EXCEPT !.currentY = minY, !.velocity = 0]
                           ELSE [s0 EXCEPT !.currentY = y, !.velocity = v]
                      ELSE wrapToMiddleSet([s0 EXCEPT !.currentY = y, !.velocity = v])
            IN Sim_requestAnimationFrame(setPosition(s1, s1.currentY, FALSE))

Sim_cancelIfAnimating(st) ==
    IF st.animationId # 0
    THEN [cancelAnimationFrame(st) EXCEPT !.animationId = 0]
    ELSE st

Sim_handleTouchStart(st, touchY) ==
    [Sim_cancelIfAnimating(st) EXCEPT !.startY = touchY, !.lastY = touchY,
                                      !.velocity = 0, !.transition = "none"]

Sim_handleTouchMove(st, touchY) ==
    LET deltaY == RoundDiv((touchY - st.lastY) * PX * Sensitivity10, 10)
        s == wrapToMiddleSet([st EXCEPT !.velocity = (touchY - st.lastY) * PX,
                                        !.lastY = touchY,
                                        !.currentY = @ + deltaY])
    IN setPosition(s, s.currentY, FALSE)

Sim_handleTouchEnd(st) ==
    IF Abs(st.velocity) > PX
    THEN Sim_requestAnimationFrame(st)
    ELSE snapToNearest(st)

\* a plausible slip: the clearTimeout(wheelTimeout) of the debounce left out
Sim_handleWheel_noClear(st, deltaY) ==
    LET s0 == Sim_cancelIfAnimating(st)
        y == s0.currentY - RoundDiv(deltaY * PX, 2)
        minY == (0 - (Len(s0.source) - 1)) * IH
        s1 == IF s0.type = "normal"
              THEN [s0 EXCEPT !.currentY = Max2(minY, Min2(0, y))]
              ELSE wrapToMiddleSet([s0 EXCEPT !.currentY = y])
        s2 == setPosition(s1, s1.currentY, FALSE)
    IN [s2 EXCEPT !.wheelTimeout = 1,
                  !.timers = [cur |-> 1, old |-> @.cur + @.old],
                  !.ok = @ /\ Live(s2) < MaxLive]

Sim_handleWheel(st, deltaY) ==
    LET s0 == Sim_cancelIfAnimating(st)
        y == s0.currentY - RoundDiv(deltaY * PX, 2)
        minY == (0 - (Len(s0.source) - 1)) * IH
        s1 == IF s0.type = "normal"
              THEN [s0 EXCEPT !.currentY = Max2(minY, Min2(0, y))]
              ELSE wrapToMiddleSet([s0 EXCEPT !.currentY = y])
        s2 == setPosition(s1, s1.currentY, FALSE)
        s3 == IF s2.wheelTimeout # 0 THEN clearTimeout(s2) ELSE s2
    IN [s3 EXCEPT !.wheelTimeout = 1,
                  !.timers = [cur |-> 1, old |-> @.cur + @.old],
                  !.ok = @ /\ Live(s3) < MaxLive]

\* setTimeout(snapToNearest, 150) firing
Sim_wheelTimer(st, h) == snapToNearest([st EXCEPT !.timers[h] = @ - 1])

Sim_select(st, value) ==
    LET index == findIndex(st.source, value)
    IN IF index # 0 - 1
       THEN setPosition([st EXCEPT !.currentIndex = index],
                        getPositionFromSourceIndex(st, index), TRUE)
       ELSE st

Sim_getValue(st) ==
    IF Sim_sourceAt(st.source, st.currentIndex) # Undefined
    THEN Sim_sourceAt(st.source, st.currentIndex).value
    ELSE 0

Sim_updateSource(st, newSource) ==
    LET s == [st EXCEPT !.source = newSource, !.rendered = newSource]
        index == findIndex(newSource, s.currentIndex)
    IN IF index # 0 - 1
       THEN setPosition(s, getPositionFromSourceIndex(s, index), FALSE)
       ELSE setPosition([s EXCEPT !.currentIndex = 0],
                        getPositionFromSourceIndex(s, 0), FALSE)

\* el.removeChild(wrapper) throws NotFoundError once wrapper has been removed
Sim_destroy(st) ==
    LET s == IF st.animationId # 0 THEN cancelAnimationFrame(st) ELSE st
    IN IF st.destroyed
       THEN [s EXCEPT !.elListeners = FALSE, !.fault = "throw"]
       ELSE [s EXCEPT !.elListeners = FALSE, !.rendered = << >>, !.destroyed = TRUE]

Sim_createIosSelector(ty, src, value, cnt) ==
    LET s0 == [variant |-> "simple", type |-> ty, source |-> src, count |-> cnt,
               scroll |-> 0, selected |-> Undefined, moving |-> FALSE,
               moveT |-> "none",
               touchData |-> [startY |-> 0, yArr |-> << >>, touchScroll |-> 0],
               currentIndex |-> 0, startY |-> 0, currentY |-> 0, lastY |-> 0,
               velocity |-> 0, animationId |-> 0, wheelTimeout |-> 0,
               transition |-> "none",
               rafQ |-> << >>, timers |-> [cur |-> 0, old |-> 0],
               micro |-> << >>, sync |-> FALSE,
               elListeners |-> TRUE, docListeners |-> FALSE, rendered |-> src,
               destroyed |-> FALSE, pressed |-> FALSE, moves |-> 0, events |-> 0,
               calls |-> << >>, fault |-> "none",
               op |-> [name |-> "create", arg |-> value, chain |-> FALSE],
               ok |-> TRUE]
        index == findIndex(src, value)
    IN IF value # 0 - 1 /\ index # 0 - 1
       THEN setPosition([s0 EXCEPT !.currentIndex = index],
                        getPositionFromSourceIndex(s0, index), FALSE)
       ELSE s0

----------------------------------------------------------------------------
(* The state machine                                                       *)

Cur ==
    [variant |-> variant, type |-> type, source |-> source, count |-> count,
     scroll |-> scroll, selected |-> selected, moving |-> moving,
     moveT |-> moveT, touchData |-> touchData,
     currentIndex |-> currentIndex, startY |-> startY, currentY |-> currentY,
     lastY |-> lastY, velocity |-> velocity, animationId |-> animationId,
     wheelTimeout |-> wheelTimeout, transition |-> transition,
     rafQ |-> rafQ, timers |-> timers, micro |-> micro, sync |-> sync,
     elListeners |-> elListeners, docListeners |-> docListeners,
     rendered |-> rendered, destroyed |-> destroyed, pressed |-> pressed,
     moves |-> moves, events |-> events, calls |-> calls, fault |-> fault,
     op |-> op, ok |-> TRUE]

\* the state a step starts from: nothing observed yet
Begin(name, arg) ==
    [Cur EXCEPT !.calls = << >>, !.fault = "none", !.ok = fault # "hang",
                !.op = [name |-> name, arg |-> arg, chain |-> FALSE]]

\* the same for a step of the environment that counts against MaxEvents
BeginEvent(name, arg) ==
    [Begin(name, arg) EXCEPT !.events = @ + 1, !.ok = @ /\ events < MaxEvents]

Set(st) ==
    /\ st.ok
    /\ variant' = st.variant /\ type' = st.type /\ source' = st.source
    /\ count' = st.count
    /\ scroll' = st.scroll /\ selected' = st.selected /\ moving' = st.moving
    /\ moveT' = st.moveT /\ touchData' = st.touchData
    /\ currentIndex' = st.currentIndex /\ startY' = st.startY
    /\ currentY' = st.currentY /\ lastY' = st.lastY /\ velocity' = st.velocity
    /\ animationId' = st.animationId /\ wheelTimeout' = st.wheelTimeout
    /\ transition' = st.transition
    /\ rafQ' = st.rafQ /\ timers' = st.timers /\ micro' = st.micro
    /\ sync' = st.sync
    /\ elListeners' = st.elListeners /\ docListeners' = st.docListeners
    /\ rendered' = st.rendered /\ destroyed' = st.destroyed
    /\ pressed' = st.pressed /\ moves' = st.moves /\ events' = st.events
    /\ calls' = st.calls /\ op' = st.op
    /\ fault' = IF st.scroll = Hang THEN "hang" ELSE st.fault
    /\ picker' = picker

\* the choices of a new handle's number: distinct from every live handle of
\* the other kind (0), or equal to one of them
Cos == IF variant = "cylinder" THEN 0..MaxLive ELSE { 0 }

\* a host task (event, timer, frame) starts only at an empty microtask queue
TaskReady == micro = << >>
\* the caller's code may go on calling the API before reactions run
ApiReady == ~destroyed /\ (micro = << >> \/ sync)

AfterTask(st) == [st EXCEPT !.sync = FALSE]
AfterApi(st) == [st EXCEPT !.sync = (st.micro # << >>)]

\* no composable around the instance
NoPicker == [sel |-> << >>, min |-> 0 - 1, max |-> 0 - 1, out |-> << >>]

\* createIosSelector(config) for a configuration drawn from the given sets
InitWith(Variants, Types, Srcs, Vals, Counts, Pickers) ==
    \E v \in Variants, ty \in Types, src \in Srcs, value \in Vals, cnt \in Counts :
        LET st == IF v = "cylinder" THEN Cyl_createIosSelector(ty, src, value, cnt)
                  ELSE Sim_createIosSelector(ty, src, value, cnt)
        IN /\ variant = st.variant /\ type = st.type /\ source = st.source
           /\ count = st.count
           /\ scroll = st.scroll /\ selected = st.selected /\ moving = st.moving
           /\ moveT = st.moveT /\ touchData = st.touchData
           /\ currentIndex = st.currentIndex /\ startY = st.startY
           /\ currentY = st.currentY /\ lastY = st.lastY /\ velocity = st.velocity
           /\ animationId = st.animationId /\ wheelTimeout = st.wheelTimeout
           /\ transition = st.transition
           /\ rafQ = st.rafQ /\ timers = st.timers /\ micro = st.micro
           /\ sync = st.sync
           /\ elListeners = st.elListeners /\ docListeners = st.docListeners
           /\ rendered = st.rendered /\ destroyed = st.destroyed
           /\ pressed = st.pressed /\ moves = st.moves /\ events = st.events
           /\ calls = st.calls /\ op = st.op /\ fault = st.fault
           /\ picker \in Pickers

InitOn(Variants, Types, Srcs, Vals, Counts) ==
    InitWith(Variants, Types, Srcs, Vals, Counts, { NoPicker })

Init == InitOn({ "cylinder", "simple" }, { "normal", "infinite" }, InitSources, InitValues, { Count })

\* no gesture, frame loop, timer or completion is in progress
AtRest ==
    /\ ~destroyed /\ ~pressed /\ ~moving
    /\ rafQ = << >> /\ timers.cur + timers.old = 0 /\ micro = << >>

\* touchstart / mousedown on the host element; op.arg = 1 when the press
\* starts from rest
PressStartOn(Ys) ==
    /\ TaskReady /\ elListeners /\ ~pressed
    /\ \E y \in Ys :
        LET b == [BeginEvent("pressStart", IF AtRest THEN 1 ELSE 0) EXCEPT !.pressed = TRUE, !.moves = 0]
        IN Set(AfterTask(IF variant = "cylinder" THEN Cyl_handleTouchStart(b, y)
                         ELSE Sim_handleTouchStart(b, y)))

\* touchmove / mousemove while the contact is down
PressMoveOn(Ys, DtSet, maxMoves) ==
    /\ TaskReady /\ pressed /\ moves < maxMoves
    /\ IF variant = "cylinder" THEN docListeners ELSE elListeners
    /\ \E y \in Ys, dt \in DtSet :
        LET b == [Begin("pressMove", 0) EXCEPT !.moves = @ + 1]
        IN Set(AfterTask(IF variant = "cylinder" THEN Cyl_handleTouchMove(b, y, dt)
                         ELSE Sim_handleTouchMove(b, y)))

\* touchend / mouseup
PressEnd ==
    /\ TaskReady /\ pressed
    /\ IF variant = "cylinder" THEN docListeners ELSE elListeners
    /\ \E co \in Cos :
        LET b == [Begin("pressEnd", 0) EXCEPT !.pressed = FALSE, !.moves = 0]
        IN Set(AfterTask(IF variant = "cylinder" THEN Cyl_handleTouchEnd(b, co)
                         ELSE Sim_handleTouchEnd(b)))

\* op.arg of a wheel event: its rank in the burst of wheel events that
\* nothing else has interrupted; the timer that ends the burst carries it on
WheelOn(Deltas) ==
    /\ TaskReady /\ elListeners
    /\ \E deltaY \in Deltas, co \in Cos :
        LET b == BeginEvent("wheel", IF op.name = "wheel" THEN op.arg + 1 ELSE 1)
        IN Set(AfterTask(IF variant = "cylinder" THEN Cyl_handleWheel(b, deltaY, co)
                         ELSE Sim_handleWheel(b, deltaY)))

\* a pending timeout fires
TimerFire ==
    /\ TaskReady
    /\ \E h \in { "cur", "old" }, co \in Cos :
        /\ timers[h] > 0
        /\ LET b == Begin("timer", IF op.name = "wheel" THEN op.arg ELSE 0)
           IN Set(AfterTask(IF variant = "cylinder" THEN Cyl_wheelTimer(b, h, co)
                            ELSE Sim_wheelTimer(b, h)))

\* the frame i that may run, the time k it runs at (0: the animation's
\* duration is over) and the coincidence co of the handle it requests
FrameChoices ==
    { c \in (1..Len(rafQ)) \X (0..FrameSteps) \X Cos :
        IF variant = "cylinder" THEN c[2] = 0 \/ c[2] > rafQ[c[1]].p
        ELSE c[2] = 0 }

FrameBegin(i) ==
    LET own == op.chain /\ rafQ[i].cur /\ rafQ[i].then = "select"
    IN [Begin("frame", IF own THEN op.arg ELSE 0) EXCEPT !.op.chain = own]

FrameResult(b, i, k, co) ==
    AfterTask(IF variant = "cylinder" THEN tick(b, i, k, co)
                 ELSE decelerate(b, i))

\* a scheduled animation-frame callback runs
FrameFire ==
    /\ TaskReady
    /\ \E c \in FrameChoices : \E b \in { FrameBegin(c[1]) } :
          \E st \in { FrameResult(b, c[1], c[2], c[3]) } : Set(st)

ReactionResult ==
    LET b == [Begin("reaction", IF op.chain THEN op.arg ELSE 0 - 1)
                 EXCEPT !.micro = Tail(@)]
    IN AfterTask(Cyl_reaction(b, Head(micro)))

\* the oldest promise reaction runs
RunReaction ==
    /\ micro # << >>
    /\ \E st \in { ReactionResult } : Set(st)

SelectOn(Vals) ==
    /\ ApiReady
    /\ \E value \in Vals, co \in Cos :
        LET own == variant = "cylinder" /\ micro = << >>
                       /\ findIndex(source, value) # 0 - 1
            b == [BeginEvent("select", value) EXCEPT !.op.chain = own]
        IN Set(AfterApi(IF variant = "cylinder" THEN Cyl_select(b, value, co)
                        ELSE Sim_select(b, value)))

UpdateSourceOn(Srcs) ==
    /\ ApiReady
    /\ \E newSource \in Srcs :
        LET b == BeginEvent("updateSource", 0)
        IN Set(AfterApi(IF variant = "cylinder" THEN Cyl_updateSource(b, newSource)
                        ELSE Sim_updateSource(b, newSource)))

Destroy ==
    /\ ApiReady
    /\ LET b == [Begin("destroy", 0) EXCEPT !.pressed = FALSE, !.moves = 0]
       IN Set(AfterApi(IF variant = "cylinder" THEN Cyl_destroy(b) ELSE Sim_destroy(b)))

PressStart == PressStartOn(PressYs)
PressMove ==
    PressMoveOn(IF variant = "cylinder" THEN CylMoveYs ELSE SimMoveYs,
                IF variant = "cylinder" THEN Dts ELSE { 0 }, MaxMoves)
Wheel == WheelOn(WheelDeltas)
Select == SelectOn(Values)
UpdateSource == UpdateSourceOn(NewSources)

Next ==
    \/ PressStart
    \/ PressMove
    \/ PressEnd
    \/ Wheel
    \/ TimerFire
    \/ FrameFire
    \/ RunReaction
    \/ Select
    \/ UpdateSource
    \/ Destroy

Spec == Init /\ [][Next]_vars

getValue == IF variant = "cylinder" THEN Cyl_getValue(Cur) ELSE Sim_getValue(Cur)

----------------------------------------------------------------------------
(* Specifications                                                          *)

\* the cylinder engine alone; the host runs every scheduled animation frame
\* and every queued promise reaction eventually
CylInit == InitOn({ "cylinder" }, { "normal", "infinite" }, InitSources, InitValues, { Count })

CylFairSpec ==
    CylInit /\ [][Next]_vars /\ WF_vars(FrameFire) /\ WF_vars(RunReaction)

\* destroy() called once more on a destroyed instance (op.arg = 1)
DestroyAgain ==
    /\ destroyed /\ (micro = << >> \/ sync)
    /\ LET b == [Begin("destroy", 1) EXCEPT !.pressed = FALSE, !.moves = 0]
       IN Set(AfterApi(IF variant = "cylinder" THEN Cyl_destroy(b) ELSE Sim_destroy(b)))

LifeNext ==
    \/ PressStart
    \/ PressMove
    \/ PressEnd
    \/ Wheel
    \/ TimerFire
    \/ FrameFire
    \/ RunReaction
    \/ Select
    \/ UpdateSource
    \/ Destroy
    \/ DestroyAgain

\* Spec with callers that may call destroy() again
LifeSpec == Init /\ [][LifeNext]_vars

\* the cylinder engine constructed with an empty Source
EmptyInit ==
    InitOn({ "cylinder" }, { "normal", "infinite" }, { << >> }, InitValues, { Count })

EmptySpec == EmptyInit /\ [][Next]_vars

\* Spec with callers that replace the Source by a shorter one (a prefix of
\* the initial Source, as a month with fewer days)
ShrinkSource == UpdateSourceOn({ SubSeq(S123, 1, 2), SubSeq(S123, 1, 1) })

ShrinkNext ==
    \/ PressStart
    \/ PressMove
    \/ PressEnd
    \/ Wheel
    \/ TimerFire
    \/ FrameFire
    \/ RunReaction
    \/ Select
    \/ ShrinkSource

ShrinkSpec == Init /\ [][ShrinkNext]_vars

\* wheel events alone, on a fresh instance; the host fires every pending
\* timer, animation frame and promise reaction eventually
BurstWheel == WheelOn(BurstDeltas)

WheelNext ==
    \/ BurstWheel
    \/ TimerFire
    \/ FrameFire
    \/ RunReaction

WheelSpec ==
    /\ Init /\ [][WheelNext]_vars
    /\ WF_vars(TimerFire) /\ WF_vars(FrameFire) /\ WF_vars(RunReaction)

\* everything the program owns: its fields, the host's queues, the DOM
progVars == << variant, type, source, count, scroll, selected, moving, moveT, touchData,
               currentIndex, startY, currentY, lastY, velocity, animationId,
               wheelTimeout, transition, rafQ, timers, micro, sync,
               elListeners, docListeners, rendered, destroyed, pressed, moves >>

\* useDatepicker: the column values, the min / max props and the column
\* changes the wheels report.  A Date is its number of seconds since the
\* start of 1 January (day 0) of a year that is not a leap year.
Date(day, hour, minute, second) == ((day * 24 + hour) * 60 + minute) * 60 + second

\* new Date(year, month + 1, 0).getDate(); months count from 0
getDaysInMonth(month) ==
    IF month = 1 THEN 28 ELSE IF month \in { 3, 5, 8, 10 } THEN 30 ELSE 31

\* the day of the year on which a month starts
RECURSIVE MonthStart(_)
MonthStart(month) ==
    IF month = 0 THEN 0 ELSE MonthStart(month - 1) + getDaysInMonth(month - 1)

\* currentDate without the branch for 12 AM
currentDate_noMidnight(sel, use24Hour) ==
    LET hours == IF use24Hour THEN sel.hour
                 ELSE IF sel.ampm = 1 /\ sel.hour < 12 THEN sel.hour + 12
                 ELSE sel.hour
    IN Date(MonthStart(sel.month) + sel.day - 1, hours, sel.minute, 0)

\* new Date(year, month, day, hours, minute): seconds and milliseconds are
\* 0, and a day beyond the end of the month counts on into the next month
currentDate(sel, use24Hour) ==
    LET hours == IF use24Hour THEN sel.hour
                 ELSE IF sel.ampm = 1 /\ sel.hour < 12 THEN sel.hour + 12
                 ELSE IF sel.ampm = 0 /\ sel.hour = 12 THEN 0
                 ELSE sel.hour
    IN Date(MonthStart(sel.month) + sel.day - 1, hours, sel.minute, 0)

extractDateValues(d, use24Hour) ==
    LET yday == d \div (24 * 60 * 60)
        month == CHOOSE mo \in 0..11 :
                     MonthStart(mo) <= yday /\ yday < MonthStart(mo) + getDaysInMonth(mo)
        hours == (d \div (60 * 60)) % 24
    IN [month |-> month, day |-> yday - MonthStart(month) + 1,
        hour |-> IF use24Hour THEN hours ELSE IF hours % 12 = 0 THEN 12 ELSE hours % 12,
        minute |-> (d \div 60) % 60,
        ampm |-> IF hours >= 12 THEN 1 ELSE 0]

\* -1 stands for an undefined bound
clampDate(d, minDate, maxDate) ==
    LET r == IF minDate # 0 - 1 /\ d < minDate THEN minDate ELSE d
    IN IF maxDate # 0 - 1 /\ r > maxDate THEN maxDate ELSE r

\* for (minute = 0; minute < 60; minute += step) with the label
\* String(minute).padStart(2, '0') as its characters; an array that grows
\* has grown to MaxMinutes options stands for the loop that never ends
getMinutes(step) ==
    LET digits(n) == IF n < 10 THEN << n >> ELSE << n \div 10, n % 10 >>
        padStart(str) == IF Len(str) < 2 THEN << 0 >> \o str ELSE str
        String(n) == IF n < 0 THEN << "-" >> \o digits(0 - n) ELSE digits(n)
        RECURSIVE loop(_, _)
        loop(minute, minutes) ==
            IF minute < 60 /\ Len(minutes) < MaxMinutes
            THEN loop(minute + step,
                      Append(minutes, [value |-> minute,
                                       label |-> padStart(String(minute))]))
            ELSE minutes
    IN loop(0, << >>)

\* selector.select(value) on every column: each cylinder selector stops its
\* animation, moves to the value and, on completion, reports the option of
\* that value through its onChange; pend holds, per column, the value of
\* the select() whose completion is to come (-1: none).  There is an AM/PM
\* selector in 12-hour mode only
updateSelectorValues(pk) ==
    [pk EXCEPT !.pend = [pk.sel EXCEPT !.ampm = IF pk.use24 THEN 0 - 1 ELSE @]]

\* setValuesFromDate(clamped); updateSelectorValues() when the clamp moved
\* the date
clampToConstraints(pk) ==
    LET clamped == clampDate(currentDate(pk.sel, pk.use24), pk.min, pk.max)
    IN IF clamped # currentDate(pk.sel, pk.use24)
       THEN updateSelectorValues([pk EXCEPT !.sel = extractDateValues(clamped, pk.use24)])
       ELSE pk

emitChange(pk) ==
    LET c == clampToConstraints(pk)
    IN [c EXCEPT !.out = Append(@, currentDate(c.sel, c.use24))]

\* the watcher of [selectedYear, selectedMonth] is queued (dirty) when the
\* handler leaves the month changed; it runs after the handler has returned
handleColumnChange(pk, column, value) ==
    LET r == emitChange([pk EXCEPT !.sel[column] = value])
    IN [r EXCEPT !.dirty = pk.dirty \/ r.sel.month # pk.sel.month]

\* selectDate(date): onChange receives the clamped Date itself
selectDate(pk, date) ==
    LET clamped == clampDate(date, pk.min, pk.max)
        r == updateSelectorValues([pk EXCEPT !.sel = extractDateValues(clamped, pk.use24)])
    IN [r EXCEPT !.out = Append(@, clamped),
                 !.dirty = pk.dirty \/ r.sel.month # pk.sel.month]

ColumnOptions ==
    [month |-> { 0, 1 }, day |-> { 1, 31 }, hour |-> { 8, 9, 10 },
     minute |-> { 0, 30, 59 }, ampm |-> { 0, 1 }]
\* the minDate / maxDate props (one of each with non-zero seconds, and no
\* maxDate), the minuteStep prop, the hour mode and the initial value,
\* which selectDate has clamped and split into the columns
PickerInit ==
    LET MinDates == { Date(0, 9, 30, 0), Date(0, 9, 30, 45) }
        MaxDates == { Date(0, 10, 0, 20), Date(1, 9, 30, 0), 0 - 1 }
    IN InitWith({ "cylinder" }, { "infinite" }, InitSources, { 0 - 1 }, { Count },
         { pk \in { [sel |-> [month |-> mo, day |-> d, hour |-> h, minute |-> m,
                              ampm |-> ap],
                     min |-> mn, max |-> mx, use24 |-> u, out |-> << >>,
                     pend |-> [c \in DOMAIN ColumnOptions |-> 0 - 1],
                     dirty |-> FALSE, minutes |-> getMinutes(1)] :
                      mo \in ColumnOptions.month, d \in ColumnOptions.day,
                      h \in ColumnOptions.hour, m \in ColumnOptions.minute,
                      ap \in ColumnOptions.ampm, u \in BOOLEAN,
                      mn \in MinDates, mx \in MaxDates } :
             pk.sel = extractDateValues(clampDate(currentDate(pk.sel, pk.use24),
                                                  pk.min, pk.max), pk.use24) })

\* no select() is to complete, no watcher is queued and the page responds
PickerIdle ==
    /\ \A c \in DOMAIN ColumnOptions : picker.pend[c] = 0 - 1
    /\ ~picker.dirty
    /\ Len(picker.minutes) < MaxMinutes

\* a wheel of the picker reports the option the user has moved it to; the
\* user waits for the wheels to settle
ColumnChange ==
    /\ PickerIdle
    /\ \E column \in DOMAIN ColumnOptions : \E value \in ColumnOptions[column] :
          /\ column = "day" => value <= getDaysInMonth(picker.sel.month)
          /\ column = "minute" =>
                 \E i \in 1..Len(picker.minutes) : picker.minutes[i].value = value
          /\ column = "ampm" => ~picker.use24
          /\ picker' = handleColumnChange([picker EXCEPT !.out = << >>], column, value)
          /\ op' = [name |-> "columnChange", arg |-> value, chain |-> FALSE,
                    column |-> column]
    /\ UNCHANGED << progVars, events, calls, fault >>

\* the select() of a column completes: selectByScroll invokes the
\* selector's onChange with the option of the selected value
SelectorCompletes ==
    /\ Len(picker.minutes) < MaxMinutes
    /\ \E column \in DOMAIN ColumnOptions :
          /\ picker.pend[column] # 0 - 1
          /\ picker' = handleColumnChange([picker EXCEPT !.out = << >>,
                                                         !.pend[column] = 0 - 1],
                                          column, picker.pend[column])
          /\ op' = [name |-> "selectorChange", arg |-> picker.pend[column],
                    chain |-> FALSE, column |-> column]
    /\ UNCHANGED << progVars, events, calls, fault >>

\* the watcher of [selectedYear, selectedMonth] runs: a day beyond the end
\* of the month becomes the month's last day and the day selector is told
\* to select it (the new day options reach the selector by updateSource)
DayWatcher ==
    /\ picker.dirty /\ Len(picker.minutes) < MaxMinutes
    /\ LET daysInMonth == getDaysInMonth(picker.sel.month)
       IN picker' = IF picker.sel.day > daysInMonth
                    THEN [picker EXCEPT !.dirty = FALSE, !.out = << >>,
                                        !.sel.day = daysInMonth,
                                        !.pend.day = daysInMonth]
                    ELSE [picker EXCEPT !.dirty = FALSE, !.out = << >>]
    /\ op' = [name |-> "dayWatcher", arg |-> 0, chain |-> FALSE, column |-> "day"]
    /\ UNCHANGED << progVars, events, calls, fault >>

\* the application calls selectDate with a Date of 2 January
SelectDate ==
    /\ PickerIdle
    /\ \E h \in 0..23, s \in { 0, 45 } :
          /\ picker' = selectDate([picker EXCEPT !.out = << >>], Date(1, h, 30, s))
          /\ op' = [name |-> "selectDate", arg |-> Date(1, h, 30, s), chain |-> FALSE,
                    column |-> "none"]
    /\ UNCHANGED << progVars, events, calls, fault >>

\* the minuteStep prop changes and the minute options are computed anew
\* with getMinutes(minuteStep || 1); a loop that never ends hangs the page
MinuteStep ==
    /\ PickerIdle
    /\ \E step \in { 0 - 15, 0, 15, 30 } :
          /\ picker' = [picker EXCEPT !.out = << >>,
                            !.minutes = getMinutes(IF step = 0 THEN 1 ELSE step)]
          /\ op' = [name |-> "minuteStep", arg |-> step, chain |-> FALSE,
                    column |-> "minute"]
    /\ UNCHANGED << progVars, events, calls, fault >>

PickerNext ==
    \/ ColumnChange
    \/ SelectorCompletes
    \/ DayWatcher
    \/ SelectDate
    \/ MinuteStep

\* every select() of a cylinder selector completes (C7), and Vue runs
\* every queued watcher
PickerSpec ==
    PickerInit /\ [][PickerNext]_vars /\ WF_vars(SelectorCompletes) /\ WF_vars(DayWatcher)

\* touchcancel: the contact ends without a touchend.  Neither engine
\* registers a listener for it, so no code of the instance runs
PressCancel ==
    /\ TaskReady /\ pressed
    /\ LET b == [Begin("pressCancel", 0) EXCEPT !.pressed = FALSE, !.moves = 0]
       IN Set(AfterTask(b))

CancelNext ==
    \/ PressStart
    \/ PressMove
    \/ PressEnd
    \/ PressCancel
    \/ Wheel
    \/ TimerFire
    \/ FrameFire
    \/ RunReaction

\* gestures that the browser may interrupt
CancelSpec == Init /\ [][CancelNext]_vars

\* the user's gestures alone (drags, releases, wheel events) and the host's
\* callbacks; a press may carry one move more than under Spec
GestureMove ==
    PressMoveOn(IF variant = "cylinder" THEN CylMoveYs ELSE SimMoveYs,
                IF variant = "cylinder" THEN Dts ELSE { 0 }, MaxMoves + 1)

GestureNext ==
    \/ PressStart
    \/ GestureMove
    \/ PressEnd
    \/ Wheel
    \/ TimerFire
    \/ FrameFire
    \/ RunReaction

GestureSpec == Init /\ [][GestureNext]_vars

\* long drags of the cylinder: up to MaxMoves + 5 moves in a press, among
\* them moves far enough to pull a normal wheel beyond its first option and
\* back towards it
DragMove == PressMoveOn({ 0, 36, 54 }, { 250 }, MaxMoves + 5)

DragNext ==
    \/ PressStart
    \/ DragMove
    \/ PressEnd
    \/ FrameFire
    \/ RunReaction

DragSpec == CylInit /\ [][DragNext]_vars

\* A second cylinder instance on the page.  Of that instance only its frame
\* callbacks are modelled: they wait in the host's one queue as frames with
\* then = "other".  The host numbers frame requests and timeouts with
\* independent counters, so the handle of a new frame may be the number that
\* this instance keeps in moveT as a timeout handle (cur).
OtherInstance ==
    /\ TaskReady /\ ~destroyed
    /\ \/ \E hit \in { c \in BOOLEAN : c => /\ moveT = "timer"
                                             /\ \A i \in 1..Len(rafQ) : ~rafQ[i].cur } :
            LET b == Begin("otherFrame", 0)
            IN /\ Live(b) < MaxLive
               /\ Set([b EXCEPT !.rafQ = Append(@, [Frame(0, 0, 0, "other")
                                                      EXCEPT !.cur = hit])])
       \/ \E i \in 1..Len(rafQ) :
            /\ rafQ[i].then = "other"
            /\ Set([Begin("otherTick", 0) EXCEPT !.rafQ = RemoveAt(@, i)])

\* a frame callback of this instance runs
OwnFrameFire ==
    /\ TaskReady
    /\ \E c \in FrameChoices :
          /\ rafQ[c[1]].then # "other"
          /\ \E b \in { FrameBegin(c[1]) } :
                \E st \in { FrameResult(b, c[1], c[2], c[3]) } : Set(st)

\* touchstart / mousedown while a frame callback of this instance is
\* scheduled; such a press is not counted against MaxEvents
InterruptingPress ==
    /\ TaskReady /\ elListeners /\ ~pressed
    /\ \E i \in 1..Len(rafQ) : rafQ[i].then # "other"
    /\ \E y \in PressYs :
        LET b == [Begin("pressStart", 0) EXCEPT !.pressed = TRUE, !.moves = 0]
        IN Set(AfterTask(Cyl_handleTouchStart(b, y)))

TwoNext ==
    \/ OtherInstance
    \/ InterruptingPress
    \/ PressStart
    \/ PressEnd
    \/ Wheel
    \/ TimerFire
    \/ OwnFrameFire
    \/ RunReaction
    \/ Select
    \/ Destroy

TwoSpec == CylInit /\ [][TwoNext]_vars

\* The index computations on their own.  A configuration is drawn from the
\* bounded sets; Locate puts the instance at the position of an index i plus
\* k whole turns of the source, Resolve reads the index back from it.  A step
\* of these two records the turns as op.cycles.
SourceOfLen(n) == [i \in 1..n |-> Opt(i, "o")]
IndexSources == { SourceOfLen(n) : n \in 1..MaxLen }
IndexCounts == 1..MaxCount

IndexInit ==
    \/ InitOn({ "simple" }, { "normal", "infinite" }, IndexSources, { 0 - 1 }, IndexCounts)
    \/ InitOn({ "cylinder" }, { "infinite" }, IndexSources, { 0 - 1 },
              { c \in IndexCounts : c >= 4 })

Locate ==
    /\ op.name \in { "create", "resolve" }
    /\ \E i \in 0..(Len(source) - 1),
          k \in IF type = "infinite" THEN (0 - MaxCycles)..MaxCycles ELSE { 0 } :
        LET b == [Begin("locate", i) EXCEPT
                     !.op = [name |-> "locate", arg |-> i, chain |-> FALSE, cycles |-> k]]
        IN Set(IF variant = "simple"
               THEN [b EXCEPT !.currentY = getPositionFromSourceIndex(b, i)
                                              + k * Len(source) * IH]
               ELSE [b EXCEPT !.scroll = (i + k * Len(source)) * SU])

Resolve ==
    /\ op.name = "locate"
    /\ LET b == [Begin("resolve", op.arg) EXCEPT
                    !.op = [name |-> "resolve", arg |-> op.arg, chain |-> FALSE,
                            cycles |-> op.cycles]]
       IN Set(IF variant = "simple"
              THEN [b EXCEPT !.currentIndex = getSourceIndexFromPosition(b, b.currentY)]
              ELSE [b EXCEPT !.scroll = normalizeScroll(b.source, b.scroll)])

IndexNext ==
    \/ Locate
    \/ Resolve

IndexSpec == IndexInit /\ [][IndexNext]_vars

\* the translate engine alone, over Sources of every length up to MaxLen
\* and every visible count up to MaxCount
SimInit ==
    InitOn({ "simple" }, { "normal", "infinite" }, IndexSources, InitValues, IndexCounts)

SimNext ==
    \/ PressStart
    \/ PressMove
    \/ PressEnd
    \/ Wheel
    \/ TimerFire
    \/ FrameFire
    \/ Select

SimSpec == SimInit /\ [][SimNext]_vars

----------------------------------------------------------------------------
(* Vocabulary of the properties                                            *)

TypeOK ==
    /\ variant \in { "cylinder", "simple" }
    /\ Len(rafQ) + timers.cur + timers.old <= MaxLive

\* the value v occurs in the source src
Occurs(src, v) == \E i \in 1..Len(src) : src[i].value = v

\* 0-based index of the first option of src whose value is v
FirstIndexOf(src, v) ==
    CHOOSE i \in 0..(Len(src) - 1) :
        /\ src[i + 1].value = v
        /\ \A j \in 1..i : src[j].value # v


\* in state st the position shows the option at 0-based index idx
AlignedTo(st, idx) ==
    IF st.variant = "cylinder" THEN st.scroll = idx * SU
    ELSE st.currentY = getPositionFromSourceIndex(st, idx)

\* a completion of a select() is still to come
SelectCompletionPending ==
    \/ \E i \in 1..Len(rafQ) : rafQ[i].then = "select"
    \/ \E i \in 1..Len(micro) : micro[i].then = "select"

----------------------------------------------------------------------------
(* C1: once destroy() has returned, onChange is never invoked again,       *)
(* whatever was pending at the moment of destruction.                      *)
C1_NoChangeAfterDestroy == destroyed => calls = << >>

(* C2: destroy() called while a frame loop is scheduled cancels that loop: *)
(* when destroy() returns no animation-frame callback is left scheduled.   *)
C2_DestroyCancelsLoop == op.name = "destroy" => rafQ = << >>

(* C3: updateSource(newSource) never invokes onChange.                     *)
C3_UpdateSourceSilent == op.name = "updateSource" => calls = << >>

(* C4: at rest with selected value v and v in newSource, after             *)
(* updateSource(newSource) getValue() is v and the position is aligned to  *)
(* the index of v in newSource.                                            *)
C4_UpdateSourceKeepsValue ==
    [][(op'.name = "updateSource" /\ AtRest /\ Occurs(source', getValue))
        => /\ getValue' = getValue
           /\ AlignedTo(Cur', FirstIndexOf(source', getValue))]_vars

(* C5: at rest with selected value v and v not in the non-empty newSource, *)
(* after updateSource(newSource) getValue() is newSource[0].value and the  *)
(* position is aligned to index 0.                                         *)
C5_UpdateSourceFallsBack ==
    [][(op'.name = "updateSource" /\ AtRest /\ ~Occurs(source', getValue))
        => /\ getValue' = source'[1].value
           /\ AlignedTo(Cur', 0)]_vars

(* C6: select(value) with a value that matches no option of the Source     *)
(* changes nothing (position, selection, velocity, running animation,      *)
(* pending timer) and does not invoke onChange.                            *)
C6_SelectAbsentIsNoOp ==
    [][(op'.name = "select" /\ ~Occurs(source, op'.arg))
        => (UNCHANGED progVars /\ calls' = << >>)]_vars

\* a select() of an absent value has returned while a frame loop is scheduled
C6_Witness ==
    /\ op.name = "select" /\ ~Occurs(source, op.arg)
    /\ rafQ # << >>

(* C7: cylinder: select(v) with v present, when nothing else intervenes,   *)
(* eventually completes; it invokes onChange exactly once, at completion,  *)
(* with the first option whose value is v, and then getValue() is v and    *)
(* scroll is that option's index.                                          *)
C7_SelectCompletes ==
    /\ [][op'.chain => calls' = << >>]_vars
    /\ [][(op.chain /\ op'.name = "reaction")
            => LET idx == FirstIndexOf(source, op.arg)
               IN /\ calls' = << source[idx + 1] >>
                  /\ getValue' = op.arg
                  /\ scroll' = idx * SU
                  /\ micro' = << >>
                  /\ \A i \in 1..Len(rafQ') : ~rafQ'[i].cur]_vars
    /\ (op.chain ~> ~op.chain)

\* the completion of an animated select() of a value that occurs twice in the
\* source has just run
C7_Witness ==
    /\ variant = "cylinder" /\ op.name = "reaction" /\ op.arg = 5
    /\ source = S595 /\ calls = << S595[1] >> /\ scroll = 0
    /\ moveT = "raf"

(* C8: simple variant: select(v) with v present moves to the aligned       *)
(* position of the first option with value v and invokes onChange with it  *)
(* on completion: when select() returns, the position is aligned and the   *)
(* callback has been invoked or a completion is scheduled.                 *)
C8_SimpleSelectNotifies ==
    [][(variant = "simple" /\ op'.name = "select" /\ Occurs(source, op'.arg))
        => /\ AlignedTo(Cur', FirstIndexOf(source, op'.arg))
           /\ (calls' # << >> \/ SelectCompletionPending')]_vars

(* C9: simple variant: select(v) with v present while the deceleration     *)
(* loop is running cancels that loop before its next frame.                *)
C9_SimpleSelectCancelsLoop ==
    [][(variant = "simple" /\ op'.name = "select" /\ Occurs(source, op'.arg)
           /\ rafQ # << >>)
        => rafQ' = << >>]_vars

(* C10: cylinder: at most one motion process exists at any time: never two *)
(* frame loops, never a loop plus a timer, never a loop or timer pending   *)
(* during a drag.                                                          *)
C10_OneMotionProcess ==
    variant = "cylinder" =>
        /\ Len(rafQ) + timers.cur + timers.old <= 1
        /\ (pressed /\ docListeners) => Len(rafQ) + timers.cur + timers.old = 0

\* the last step resolved the position to an option: selectByScroll ran
\* (cylinder) or snapToNearest ran (simple)
Resolved ==
    IF variant = "cylinder" THEN op.name = "reaction"
    ELSE op.name \in { "pressEnd", "timer", "frame" } /\ transition = "animated"

\* scroll (cylinder) or currentIndex (simple) is an integer index of source
IndexInRange ==
    IF variant = "cylinder"
    THEN scroll # NaN /\ scroll % SU = 0 /\ (scroll \div SU) \in 0..(Len(source) - 1)
    ELSE currentIndex \in 0..(Len(source) - 1)

\* the index the instance holds (meaningful when IndexInRange)
HeldIndex == IF variant = "cylinder" THEN scroll \div SU ELSE currentIndex

(* C11: normal mode, both variants: whenever the selector comes to rest    *)
(* after drags, wheel events and releases, the resolved index is an        *)
(* integer in [0, length-1] and onChange received the option at it.        *)
C11_RestIndexInRange ==
    (type = "normal" /\ Resolved /\ AtRest)
        => /\ IndexInRange
           /\ calls = << source[HeldIndex + 1] >>

(* C12: cylinder: the release velocity handed to animateMoveByInitV has    *)
(* magnitude at most 30 items per second; a raw velocity beyond 30 in      *)
(* magnitude is applied as exactly +30 or -30 with the raw velocity's sign.*)
C12_ReleaseVelocityCapped ==
    [][(variant = "cylinder" /\ op'.name = "pressEnd")
        => LET raw == RawVelocity(Cur, touchData.yArr)
               v == ReleaseVelocity(Cur)
           IN /\ v # NaN /\ Abs(v) <= MaxV * VU
              /\ (raw # NaN /\ raw > MaxV * VU) => v = MaxV * VU
              /\ (raw # NaN /\ raw < 0 - MaxV * VU) => v = 0 - MaxV * VU]_vars

\* the option the instance reports as selected
HeldOption ==
    IF variant = "cylinder" THEN selected ELSE Sim_sourceAt(source, currentIndex)

\* the rendered position
Position == IF variant = "cylinder" THEN scroll ELSE currentY

(* C13: both variants: from rest, a press-start immediately followed by a  *)
(* press-end with no move resolves before the press-end handler returns:   *)
(* the selected option and the position are as before the gesture,         *)
(* onChange has been invoked exactly once with that option, and nothing is *)
(* left pending.                                                           *)
C13_TapResolvesInPlace ==
    [][(op.name = "pressStart" /\ op.arg = 1 /\ op'.name = "pressEnd")
        => /\ HeldOption' = HeldOption
           /\ Position' = Position
           /\ calls' = << HeldOption >>
           /\ micro' = << >> /\ rafQ' = << >>]_vars

(* C14: simple variant: in every reachable state with no press active, no  *)
(* deceleration frame scheduled and no wheel timer pending (also right     *)
(* after construction and after updateSource), currentY equals             *)
(* getPositionFromSourceIndex(currentIndex).                               *)
C14_SimpleRestAligned ==
    (variant = "simple" /\ ~pressed /\ rafQ = << >> /\ timers.cur + timers.old = 0)
        => currentY = getPositionFromSourceIndex(Cur, currentIndex)

(* C15: cylinder, both modes: in every reachable state with no press       *)
(* active, no animation running and no wheel timer pending, scroll is an   *)
(* integer in [0, source.length-1] and selected is source[scroll]; also    *)
(* after a release whose velocity is exactly 0 after the finger has moved. *)
C15_CylinderRestIntegral ==
    (variant = "cylinder" /\ AtRest)
        => /\ IndexInRange
           /\ selected = source[HeldIndex + 1]

(* C16: simple variant, both modes, every source length >= 1 and every     *)
(* visible count: getSourceIndexFromPosition(getPositionFromSourceIndex(i))*)
(* is i for every index i of the source.                                   *)
C16_IndexRoundTrip ==
    (variant = "simple" /\ op.name = "resolve" /\ op.cycles = 0)
        => currentIndex = op.arg

\* the round trip has been made for the last index of a source of four
\* options, in either mode, with a visible count of 1
C16_Witness ==
    /\ variant = "simple" /\ op.name = "resolve" /\ op.cycles = 0
    /\ Len(source) = 4 /\ op.arg = 3 /\ currentIndex = 3 /\ count = 1

(* C17: infinite mode: a position that lies k whole turns of the source    *)
(* away from the position of index i resolves to i, for every integer k:   *)
(* simple getSourceIndexFromPosition(getPositionFromSourceIndex(i)         *)
(* + k * length * itemHeight) = i, cylinder normalizeScroll(i + k * length)*)
(* = i.                                                                    *)
C17_WholeTurnsResolve ==
    (type = "infinite" /\ op.name = "resolve")
        => IF variant = "simple" THEN currentIndex = op.arg
           ELSE scroll = op.arg * SU

\* the cylinder has resolved a position two turns below index 1
C17_Witness ==
    /\ variant = "cylinder" /\ type = "infinite" /\ op.name = "resolve"
    /\ op.cycles = 0 - 2 /\ op.arg = 1 /\ scroll = SU

(* C18: both variants: destroy() is idempotent: a second call returns      *)
(* without throwing and leaves the instance destroyed as the first call    *)
(* left it (no listeners, nothing rendered).                               *)
C18_DestroyIdempotent ==
    [][(destroyed /\ op'.name = "destroy")
        => /\ fault' = "none"
           /\ destroyed' /\ ~elListeners' /\ ~docListeners' /\ rendered' = << >>]_vars

(* C19: cylinder constructed with an empty Source, either mode: no later   *)
(* handler or method (press, move, release, wheel, timer, select,          *)
(* updateSource, getValue, destroy) throws or fails to return, and         *)
(* getValue() returns 0 while the Source is empty.                         *)
C19_EmptySourceSafe ==
    /\ fault = "none"
    /\ source = << >> => getValue = 0

(* C20: both variants: in a burst of wheel events with no other input, no  *)
(* wheel event invokes onChange or starts a frame loop, and each leaves    *)
(* exactly one debounce timer pending; the snap resolution runs only from  *)
(* that timer (after 150 ms of quiet), invokes onChange exactly once, with *)
(* the option it settles on, and leaves nothing pending; no deceleration   *)
(* loop is ever scheduled; and a pending timer always leads to such a      *)
(* resolution.                                                             *)
C20_WheelBurstSnapsOnce ==
    /\ [][op'.name = "wheel"
            => /\ calls' = << >>
               /\ timers' = [cur |-> 1, old |-> 0]
               /\ rafQ' = << >> /\ micro' = << >>]_vars
    /\ [][(op'.name \in { "timer", "frame" } /\ ~Resolved')
            => /\ variant = "cylinder" /\ calls' = << >>
               /\ timers'.cur + timers'.old = 0
               /\ Len(rafQ') + Len(micro') = 1
               /\ \A i \in 1..Len(rafQ') : rafQ'[i].then = "wheel"]_vars
    /\ [][Resolved'
            => /\ op'.name \in { "timer", "reaction" }
               /\ IndexInRange'
               /\ calls' = << source[HeldIndex' + 1] >>
               /\ AtRest']_vars
    /\ (timers.cur = 1) ~> (Resolved /\ Len(calls) = 1)

\* the timer of a burst of two wheel events has just resolved the position
\* and invoked onChange once
C20_Witness ==
    /\ op.name = "timer" /\ op.arg = 2 /\ Resolved /\ Len(calls) = 1
    /\ events = 2

(* C21: both variants: a touchcancel during a drag behaves like a          *)
(* press-end with velocity 0: the move listeners added for the drag are    *)
(* gone and the snap has run (simple: the list is animated to an aligned   *)
(* position and onChange is invoked) or is under way (cylinder: its        *)
(* animation or its completion is scheduled).                              *)
C21_CancelEndsDrag ==
    [][op'.name = "pressCancel"
        => /\ ~docListeners'
           /\ IF variant = "cylinder"
              THEN micro' # << >> \/ \E i \in 1..Len(rafQ') : rafQ'[i].cur
              ELSE /\ transition' = "animated" /\ Len(calls') = 1
                   /\ AlignedTo(Cur', currentIndex')]_vars

\* the two most recent samples of the drag carry the same timestamp
ZeroDurationSample ==
    /\ Len(touchData.yArr) >= 2
    /\ touchData.yArr[Len(touchData.yArr)].dt = 0

(* C22: cylinder: a release whose two most recent samples carry the same   *)
(* timestamp, with equal or different Y, is treated as velocity 0, and     *)
(* scroll does not become not-a-number.                                    *)
C22_ZeroDurationIsZeroVelocity ==
    [][(variant = "cylinder" /\ op'.name = "pressEnd" /\ ZeroDurationSample)
        => /\ ReleaseVelocity(Cur) = 0
           /\ scroll' # NaN]_vars

(* C23: useDatepicker: with min <= max given, every Date passed to the     *)
(* composable's onChange as the result of a wheel column change lies in    *)
(* [min, max] at full timestamp precision, also when min or max have       *)
(* non-zero seconds.                                                       *)
C23_EmittedDateInBounds ==
    (op.name = "columnChange" /\ picker.min <= picker.max)
        => \A i \in 1..Len(picker.out) :
               picker.min <= picker.out[i] /\ picker.out[i] <= picker.max

(* C24: cylinder: selectByScroll(s) resolves every position s to an        *)
(* integer index in [0, len - 1] (rounding, then modulo in infinite mode   *)
(* or a clamp at both ends in normal mode), and selected is defined.       *)
(* updateSource applies it to the position the wheel is held at.           *)
C24_SelectByScrollResolves ==
    [][(variant = "cylinder" /\ op'.name = "updateSource" /\ ~moving
            /\ scroll # NaN /\ fault' = "none")
        => /\ scroll' % SU = 0
           /\ 0 <= scroll' /\ scroll' <= (Len(source') - 1) * SU
           /\ selected' # Undefined]_vars

(* C25: simple: whenever the Source is non-empty, currentIndex is an       *)
(* integer in [0, len - 1] after any sequence of gestures, select() and    *)
(* updateSource() calls, so getValue() never returns the fallback of an    *)
(* index without an option.                                                *)
C25_CurrentIndexInRange ==
    (variant = "simple" /\ source # << >>)
        => /\ currentIndex \in 0..(Len(source) - 1)
           /\ Sim_sourceAt(source, currentIndex) # Undefined

(* C26: both variants: updateSource(newSource) called while an animation   *)
(* or deceleration loop is running stops that loop before the new Source   *)
(* is installed: when it returns, no frame of the old motion is left to    *)
(* run against the new Source.                                             *)
C26_UpdateSourceStopsLoop ==
    [][op'.name = "updateSource"
        => \A i \in 1..Len(rafQ') : ~rafQ'[i].cur]_vars

\* the position y lies more than one cycle (Source length * itemHeight) off
\* the middle copy of the rendered list
DriftedOff(st, y) ==
    LET setHeight == Len(st.source) * IH
        middleSetStart == (Sim_halfCount(st) - 2 * Len(st.source)) * IH
    IN y > middleSetStart + setHeight \/ y < middleSetStart - 2 * setHeight

(* C27: simple, infinite mode: when a wheel event carries the position     *)
(* more than one full cycle off the middle copy, wrapToMiddleSet moves it  *)
(* back by exactly one cycle length and writes the transform (without a    *)
(* transition) in the same step.  The position the event started from was  *)
(* within one cycle of the middle copy.                                    *)
C27_WrapByOneCycle ==
    [][(variant = "simple" /\ type = "infinite" /\ op'.name = "wheel"
            /\ ~DriftedOff(Cur, currentY))
        => \A deltaY \in WheelDeltas :
             LET y == currentY - RoundDiv(deltaY * PX, 2)
             IN (DriftedOff(Cur, y)
                    /\ currentY' = wrapToMiddleSet([Cur EXCEPT !.currentY = y]).currentY)
                  => /\ Abs(currentY' - y) = Len(source) * IH
                     /\ transition' = "none"]_vars

(* C28: simple: wrapToMiddleSet never changes which option is under the    *)
(* highlight: in infinite mode getSourceIndexFromPosition of the position  *)
(* is the same before and after the call made by a drag move or a wheel    *)
(* event, and in normal mode the call changes nothing.                     *)
C28_WrapKeepsIndex ==
    [][(variant = "simple" /\ op'.name \in { "pressMove", "wheel" })
        => \A y \in IF op'.name = "pressMove"
                    THEN { currentY + RoundDiv((lastY' - lastY) * PX * Sensitivity10, 10) }
                    ELSE { currentY - RoundDiv(deltaY * PX, 2) : deltaY \in WheelDeltas } :
             LET s == [Cur EXCEPT !.currentY = y]
                 w == wrapToMiddleSet(s)
             IN /\ getSourceIndexFromPosition(w, w.currentY)
                      = getSourceIndexFromPosition(s, y)
                /\ type = "normal" => w = s
                /\ op'.name = "pressMove" => currentY' = w.currentY]_vars

\* a second wheel event in a row, on a one-option Source, has brought the
\* position back to where the list was created: no two wheel displacements
\* cancel, so the second event's wrap has moved the position
C28_Witness ==
    /\ variant = "simple" /\ type = "infinite"
    /\ Len(source) = 1 /\ count = Count
    /\ op.name = "wheel" /\ op.arg = 2
    /\ currentY = 0

(* C29: simple: snapToNearest moves the list to the aligned position       *)
(* nearest to the current one: when the debounce timer of the wheel, a     *)
(* slow release or the last deceleration frame snaps from a position       *)
(* within the valid range (normal: between the last and the first option;  *)
(* infinite: within one cycle of the middle copy), the list is displaced   *)
(* by at most itemHeight / 2.                                              *)
C29_SnapToNearest ==
    [][(/\ variant = "simple"
        /\ \/ op'.name = "timer"
           \/ op'.name = "pressEnd" /\ Abs(velocity) <= PX
           \/ op'.name = "frame" /\ Abs(velocity) < PX \div 2
        /\ IF type = "normal"
           THEN (0 - (Len(source) - 1)) * IH <= currentY /\ currentY <= 0
           ELSE ~DriftedOff(Cur, currentY))
        => 2 * Abs(currentY' - currentY) <= IH]_vars

(* C30: simple, infinite mode: for every non-empty Source and every        *)
(* visible count, at every reachable position the rendered list of 5       *)
(* copies covers the whole visible window (count rows of itemHeight, the   *)
(* list starting currentY below the window's top), so every row is backed  *)
(* by an item.                                                             *)
C30_WindowBacked ==
    (variant = "simple" /\ type = "infinite" /\ source # << >> /\ ~destroyed)
        => /\ currentY <= 0
           /\ currentY + 5 * Len(rendered) * IH >= count * IH

(* C31: cylinder, normal mode: a release while scroll lies outside         *)
(* [0, length - 1] starts an animation from scroll to the nearest bound    *)
(* whatever the release velocity is; the frame that ends it puts scroll on *)
(* that bound, and the selection then resolved is the option at the bound. *)
C31_BounceToNearestBound ==
    [][LET top == (Len(source) - 1) * SU
           Beyond(s) == s # NaN /\ (s < 0 \/ s > top)
           Bound(s) == IF s < 0 THEN 0 ELSE top
       IN /\ (variant = "cylinder" /\ type = "normal" /\ op'.name = "pressEnd"
                /\ Beyond(scroll))
            => /\ moving'
               /\ \E i \in 1..Len(rafQ') :
                     /\ rafQ'[i].cur /\ rafQ'[i].then = "release"
                     /\ rafQ'[i].init = scroll /\ rafQ'[i].final = Bound(scroll)
          /\ (variant = "cylinder" /\ type = "normal" /\ op'.name = "frame"
                /\ micro' # << >>
                /\ \E i \in 1..Len(rafQ) : rafQ[i].cur /\ Beyond(rafQ[i].init))
            => \E i \in 1..Len(rafQ) :
                   rafQ[i].cur /\ scroll' = Bound(rafQ[i].init)
          /\ (variant = "cylinder" /\ type = "normal" /\ op'.name = "reaction"
                /\ Head(micro).then = "release" /\ scroll \in { 0, top })
            => /\ scroll' = scroll
               /\ selected' = source[scroll \div SU + 1]
               /\ calls' = << selected' >>]_vars

\* a wheel released above its first option while the finger was moving back
\* towards it has bounced to the first option
C31_Witness ==
    /\ variant = "cylinder" /\ type = "normal"
    /\ op.name = "reaction" /\ scroll = 0 /\ calls = << source[1] >>
    /\ Len(touchData.yArr) >= 2
    /\ touchData.yArr[Len(touchData.yArr)].y = 36
    /\ touchData.yArr[Len(touchData.yArr) - 1].y = 54
    /\ touchData.touchScroll = 0

(* C32: simple: a frame of the deceleration loop either finds              *)
(* |velocity| < 0.5, calls snapToNearest once (one onChange, the animated  *)
(* transition to the aligned position) and schedules no further frame, or  *)
(* lowers |velocity| strictly and schedules exactly one further frame, so  *)
(* the loop ends after finitely many frames; in normal mode a step beyond  *)
(* a bound puts the position on the bound with velocity 0, and the next    *)
(* frame snaps.                                                            *)
C32_DecelerationEnds ==
    [][(variant = "simple" /\ op'.name = "frame")
        => IF Abs(velocity) < PX \div 2
           THEN /\ rafQ' = << >>
                /\ transition' = "animated" /\ Len(calls') = 1
                /\ AlignedTo(Cur', currentIndex')
           ELSE /\ Abs(velocity') < Abs(velocity)
                /\ Len(rafQ') = 1 /\ calls' = << >>
                /\ LET y == currentY + RoundDiv(velocity * 95, 100)
                       minY == (0 - (Len(source) - 1)) * IH
                   IN (type = "normal" /\ (y > 0 \/ y < minY))
                        => /\ velocity' = 0
                           /\ currentY' = IF y > 0 THEN 0 ELSE minY]_vars

\* the loop has snapped on the frame after the one that hit a bound
C32_Witness ==
    /\ variant = "simple" /\ type = "normal"
    /\ op.name = "frame" /\ velocity = 0
    /\ transition = "animated" /\ Len(calls) = 1 /\ rafQ = << >>

(* C33: cylinder: during a press touchData.yArr holds between 1 and 5      *)
(* samples; a press-start resets it to exactly the press sample, and a     *)
(* move event appends its sample, evicting the oldest one once 5 are       *)
(* held, so the history is the most recent samples in arrival order.       *)
C33_SampleHistoryBounded ==
    [][variant = "cylinder"
        => LET old == touchData.yArr
               new == touchData'.yArr
           IN /\ pressed' => (Len(new) >= 1 /\ Len(new) <= 5)
              /\ op'.name = "pressStart"
                    => new = << [y |-> touchData'.startY, dt |-> 0] >>
              /\ op'.name = "pressMove"
                    => /\ Len(new) = Min2(Len(old) + 1, 5)
                       /\ SubSeq(new, 1, Len(new) - 1)
                            = SubSeq(old, Len(old) + 2 - Len(new), Len(old))]_vars

\* a sixth move of a press has evicted the press sample
C33_Witness ==
    /\ variant = "cylinder" /\ pressed /\ op.name = "pressMove"
    /\ moves = MaxMoves + 5 /\ Len(touchData.yArr) = 5

\* the frame callbacks of the other instance that wait in the host's queue
OtherFrames(q) == Len(SelectSeq(q, LAMBDA f : f.then = "other"))

(* C34: two cylinder instances on one page: no press-start, wheel event,   *)
(* select() or destroy() of one instance cancels an animation-frame        *)
(* callback that the other instance has scheduled.                         *)
C34_NoCrossInstanceCancel ==
    [][op'.name \in { "pressStart", "wheel", "select", "destroy" }
        => OtherFrames(rafQ') = OtherFrames(rafQ)]_vars

\* the frame callbacks of this instance that wait in the host's queue
OwnFrames(q) == SelectSeq(q, LAMBDA f : f.then # "other")

(* C35: cylinder: a press-start, a wheel event or a select() of a present  *)
(* value that arrives while a frame animation is running interrupts it:    *)
(* no frame of the interrupted animation is left to run, so it writes      *)
(* scroll no more and never completes; only a frame of the motion that     *)
(* replaced it (the animation of the select) may be scheduled.             *)
C35_InterruptedAnimationEnds ==
    [][(/\ variant = "cylinder" /\ OwnFrames(rafQ) # << >>
        /\ \/ op'.name \in { "pressStart", "wheel" }
           \/ op'.name = "select" /\ Occurs(source, op'.arg))
        => IF op'.name = "select"
           THEN /\ Len(OwnFrames(rafQ')) <= 1
                /\ \A i \in 1..Len(OwnFrames(rafQ')) :
                      /\ OwnFrames(rafQ')[i].then = "select"
                      /\ OwnFrames(rafQ')[i].p = 0
                      /\ OwnFrames(rafQ')[i].final = FirstIndexOf(source, op'.arg) * SU
           ELSE OwnFrames(rafQ') = << >>]_vars

(* C36: cylinder: during a drag a move puts the wheel at the position of   *)
(* the press plus the finger's pixel travel divided by the item height and *)
(* multiplied by the configured sensitivity (within the bounds, where no   *)
(* boundary resistance applies), so with sensitivity 0.8 the wheel travels *)
(* less than the finger.                                                   *)
C36_DragScaledBySensitivity ==
    [][(variant = "cylinder" /\ op'.name = "pressMove" /\ touchData.touchScroll # NaN)
        => LET eventY == touchData'.yArr[Len(touchData'.yArr)].y
               finger == RoundDiv((touchData.startY - eventY) * SU, Cyl_itemHeight(Cur))
               scaled == RoundDiv((touchData.startY - eventY) * SU * Sensitivity10,
                                  Cyl_itemHeight(Cur) * 10)
               top == (Len(source) - 1) * SU
               within == touchData.touchScroll + finger >= 0
                            /\ touchData.touchScroll + finger <= top
           IN (type = "infinite" \/ within)
                => scroll' = moveTo(Cur, touchData.touchScroll + scaled)]_vars

(* C37: useDatepicker wired to cylinder selectors: a column change reaches *)
(* quiescence: whenever select() calls of the feedback cycle are waiting   *)
(* for their completion, a state follows in which none is.                 *)
C37_FeedbackQuiesces ==
    (\E c \in DOMAIN ColumnOptions : picker.pend[c] # 0 - 1)
        ~> (\A c \in DOMAIN ColumnOptions : picker.pend[c] = 0 - 1)

(* C38: useDatepicker: when the month column changes and the selected day  *)
(* is beyond the last day of the new month (and the min / max props leave   *)
(* the date alone), every Date passed to onChange by that change lies in    *)
(* the selected month, with the day clamped to that month's last day.       *)
C38_DayClampedOnMonthChange ==
    [][LET daysInMonth == getDaysInMonth(op'.arg)
           raw == currentDate([picker.sel EXCEPT !.month = op'.arg], picker.use24)
           clamped == currentDate([picker.sel EXCEPT !.month = op'.arg,
                                                     !.day = daysInMonth],
                                  picker.use24)
       IN (/\ op'.name = "columnChange" /\ op'.column = "month"
           /\ picker.sel.day > daysInMonth
           /\ clampDate(raw, picker.min, picker.max) = raw
           /\ clampDate(clamped, picker.min, picker.max) = clamped)
            => \A i \in 1..Len(picker'.out) :
                   /\ extractDateValues(picker'.out[i], TRUE).month = op'.arg
                   /\ extractDateValues(picker'.out[i], TRUE).day = daysInMonth]_vars

(* C39: useDatepicker: splitting a Date into the column values and        *)
(* recombining them is a round trip at minute precision: after selectDate   *)
(* has stored a Date with setValuesFromDate, currentDate is that Date with  *)
(* its seconds dropped, and so it is for every hour 0..23 and minute 0..59  *)
(* of that day, in 24-hour mode and in 12-hour mode with the AM/PM flag.    *)
C39_SplitRecombineRoundTrip ==
    op.name = "selectDate"
        => /\ picker.sel = extractDateValues(picker.out[1], picker.use24)
           /\ currentDate(picker.sel, picker.use24) = picker.out[1] - (picker.out[1] % 60)
           /\ \A h \in 0..23, mi \in 0..59, use24Hour \in BOOLEAN :
                  LET d == Date(picker.out[1] \div (24 * 60 * 60), h, mi, picker.out[1] % 60)
                      v == extractDateValues(d, use24Hour)
                  IN /\ currentDate(v, use24Hour) = d - (d % 60)
                     /\ ~use24Hour => (v.hour \in 1..12 /\ v.ampm = (IF h >= 12 THEN 1 ELSE 0))

\* selectDate has stored 00:30:45 of 2 January in 12-hour mode: 12 AM
C39_Witness ==
    /\ op.name = "selectDate" /\ ~picker.use24
    /\ picker.out = << Date(1, 0, 30, 45) >>
    /\ picker.sel.hour = 12 /\ picker.sel.ampm = 0

(* C40: getMinutes(step) terminates for every integer step, also for step  *)
(* 0 and for negative steps, and returns the minutes 0, step, 2*step, ...   *)
(* below 60 in increasing order, each with a two-digit zero-padded label;   *)
(* checked for the step a change of the minuteStep prop names and for the   *)
(* step useDatepicker passes to getMinutes for it.                          *)
C40_GetMinutesTerminates ==
    op.name = "minuteStep"
        => \A step \in { op.arg, IF op.arg = 0 THEN 1 ELSE op.arg } :
               LET minutes == getMinutes(step)
               IN /\ Len(minutes) < MaxMinutes
                  /\ \A i \in 1..Len(minutes) :
                         /\ minutes[i].value = (i - 1) * step
                         /\ minutes[i].value < 60
                         /\ minutes[i].label = << minutes[i].value \div 10,
                                                  minutes[i].value % 10 >>
                         /\ i > 1 => minutes[i - 1].value < minutes[i].value
                  /\ Len(minutes) * step >= 60

====
